---- MODULE Spec2Model ----
(***************************************************************************)
(* nihonify: Gregorian date -> Japanese era (nengou) date.                 *)
(*                                                                         *)
(* The model covers src/src/lib.rs: Era::from_unix_epoch (the linear scan  *)
(* of the era table), Era::to_jp_nenkou_string (the formatter),            *)
(* to_jp_intstring (fullwidth digits) and is_jp (script detection).        *)
(* Strings are sequences of Unicode codepoints.  Option<T> is a set with   *)
(* at most one element: None is {} and Some(x) is {x}.  A call's outcome   *)
(* carries a `panicked` flag, so that a failing unwrap or an index out of  *)
(* bounds is an outcome of the model and not a gap in it.                  *)
(***************************************************************************)
EXTENDS Integers, Sequences, FiniteSets

VARIABLES
    SORTED_ERAS,    \* the static era table (crate::eras::SORTED_ERAS)
    op,             \* the function whose call has just returned, or "idle"
    arg,            \* its argument
    ret             \* its outcome

vars == <<SORTED_ERAS, op, arg, ret>>

----------------------------------------------------------------------------
(* Bounds of the model *)

\* most records in an era table that satisfies the data-model invariants
MaxEras == 3
\* most records in an arbitrary era table
MaxAnyEras == 2
\* queries lie within this many seconds of a day boundary of the grid
MaxSecOffset == 1
\* to_jp_intstring is applied to every number up to this one
MaxNum == 120
\* is_jp is applied to every string of at most this many characters
MaxStrLen == 3

----------------------------------------------------------------------------
(* Program constants *)

\* chrono's Duration::num_days(): seconds in a day
SecondsPerDay == 86400
\* the fixed divisor of the era-year computation
DaysPerYear == 365
\* distance between an ASCII digit and its fullwidth counterpart
FullwidthShift == 65248
\* utc_dt anchors a date at 22:10:57, in seconds after midnight
AnchorSecondOfDay == 79857

----------------------------------------------------------------------------
(* Option<T> *)

None == {}

Some(x) == {x}

\* Option::unwrap on a value known to be Some
Unwrap(o) == CHOOSE x \in o : TRUE

\* Rust's integer division truncates toward zero; \div floors
TruncDiv(a, b) ==
    IF a >= 0 THEN a \div b ELSE -((-a) \div b)

----------------------------------------------------------------------------
(* The era table.  The records of eras.rs are not listed one by one: the   *)
(* table is any of the tables that the data model allows, over a small     *)
(* choice of first starts and era lengths.                                 *)

\* names of the most recent eras, oldest first (kanji as codepoints); a
\* table of n records holds the last n of them
KanjiNames ==
    << <<26126, 27835>>, <<22823, 27491>>, <<26157, 21644>>,
       <<24179, 25104>>, <<20196, 21644>> >>

RomajiNames == <<"meiji", "taishou", "shouwa", "heisei", "reiwa">>

\* started_at of the first record: one before the epoch and off midnight,
\* one after it (2019-05-01T00:00:00Z)
FirstStarts == { 54000 - 800 * SecondsPerDay, 18017 * SecondsPerDay }

\* lengths of the bounded eras, in seconds
EraLengths == { 2, 400 * SecondsPerDay }

Era(kanji, romaji, jidai, started_at, ended_at) ==
    [kanji |-> kanji, romaji |-> romaji, jidai |-> jidai,
     started_at |-> started_at, ended_at |-> ended_at]

\* started_at of record i of a contiguous table with the given first start
\* and the given lengths of its bounded eras
RECURSIVE StartOf(_, _, _)
StartOf(first, lens, i) ==
    IF i = 1 THEN first ELSE StartOf(first, lens, i - 1) + lens[i - 1]

\* the table with n records: the first n - 1 bounded, the last open-ended;
\* record `nameless` (0 for none) has no kanji
MakeTable(first, lens, nameless) ==
    [i \in 1..(Len(lens) + 1) |->
        Era(IF i = nameless THEN None
            ELSE Some(KanjiNames[i + Len(KanjiNames) - (Len(lens) + 1)]),
            Some(RomajiNames[i + Len(RomajiNames) - (Len(lens) + 1)]),
            "Modern",
            StartOf(first, lens, i),
            IF i = Len(lens) + 1 THEN None
            ELSE Some(StartOf(first, lens, i + 1)))]

\* sequences over S of length n
SeqsOfLen(S, n) == [1..n -> S]

ValidTables ==
    { MakeTable(first, lens, nameless) :
        first \in FirstStarts,
        lens \in UNION { SeqsOfLen(EraLengths, n) : n \in 0..(MaxEras - 1) },
        nameless \in 0..MaxEras }

\* the data-model invariants of the specification
NonEmpty(t) == Len(t) >= 1

SortedAscending(t) ==
    \A i \in 1..(Len(t) - 1) : t[i].started_at < t[i + 1].started_at

Contiguous(t) ==
    \A i \in 1..(Len(t) - 1) : t[i].ended_at = Some(t[i + 1].started_at)

OneOpenEraLast(t) ==
    \A i \in 1..Len(t) : (t[i].ended_at = None) <=> (i = Len(t))

DataModelInvariants(t) ==
    NonEmpty(t) /\ SortedAscending(t) /\ Contiguous(t) /\ OneOpenEraLast(t)

\* arbitrary tables: any started_at and ended_at over a small grid
AnyTimes == {-1, 1}

AnyEras ==
    { Era(Some(KanjiNames[1]), Some(RomajiNames[1]), "Modern", s, e) :
        s \in AnyTimes, e \in {None} \cup { Some(x) : x \in AnyTimes } }

AnyTables == UNION { SeqsOfLen(AnyEras, n) : n \in 0..MaxAnyEras }

----------------------------------------------------------------------------
(* Era::from_unix_epoch *)

\* an outcome of from_unix_epoch: the index of the era returned (a
\* reference into the table), and how many records the loop examined
Resolved(era, scanned) == [panicked |-> FALSE, era |-> era, scanned |-> scanned]

Panicked == [panicked |-> TRUE]

\* BeforeFirstEra with the early return dropped (the loop finds no match
\* for such a timestamp either)
BeforeFirstEra_Dropped(unix_epoch) == FALSE

\* line 36: the early return
BeforeFirstEra(unix_epoch) == unix_epoch < SORTED_ERAS[1].started_at

\* EraMatches with started_at inclusive (<= for <)
EraMatches_StartInclusive(era, unix_epoch) ==
    IF ~(era.started_at <= unix_epoch) THEN FALSE
    ELSE IF era.ended_at = None THEN TRUE
    ELSE unix_epoch < Unwrap(era.ended_at)

\* EraMatches with ended_at inclusive (<= for <)
EraMatches_EndInclusive(era, unix_epoch) ==
    IF ~(era.started_at < unix_epoch) THEN FALSE
    ELSE IF era.ended_at = None THEN TRUE
    ELSE unix_epoch <= Unwrap(era.ended_at)

\* lines 44-56: TRUE when the match returns Some(era) for this record
EraMatches(era, unix_epoch) ==
    IF ~(era.started_at < unix_epoch) THEN FALSE
    ELSE IF era.ended_at = None THEN TRUE
    ELSE unix_epoch < Unwrap(era.ended_at)

\* lines 43-59: the loop from record i on
RECURSIVE ScanFrom(_, _)
ScanFrom(i, unix_epoch) ==
    IF i > Len(SORTED_ERAS) THEN Resolved(None, Len(SORTED_ERAS))
    ELSE IF EraMatches(SORTED_ERAS[i], unix_epoch) THEN Resolved(Some(i), i)
    ELSE ScanFrom(i + 1, unix_epoch)

from_unix_epoch(unix_epoch) ==
    IF Len(SORTED_ERAS) = 0 THEN Panicked
    ELSE IF BeforeFirstEra(unix_epoch) THEN Resolved(None, 0)
    ELSE ScanFrom(1, unix_epoch)

----------------------------------------------------------------------------
(* chrono: DateTime<Utc> as a day number (days since 1970-01-01) and a     *)
(* second of that day                                                      *)

\* Utc.timestamp(secs, 0)
Utc_timestamp(secs) ==
    [days |-> secs \div SecondsPerDay, secs |-> secs % SecondsPerDay]

\* DateTime::timestamp
timestamp(date) == date.days * SecondsPerDay + date.secs

\* date - other, a Duration in seconds
Minus(date, other) ==
    (date.days - other.days) * SecondsPerDay + (date.secs - other.secs)

\* Duration::num_days: whole days, truncated toward zero
num_days(duration) == TruncDiv(duration, SecondsPerDay)

\* the proleptic Gregorian calendar date of a day number, as
\* <<year, month, day>>
Civil(days) ==
    LET z   == days + 719468
        era == z \div 146097
        doe == z - era * 146097
        yoe == (doe - doe \div 1460 + doe \div 36524 - doe \div 146096) \div 365
        doy == doe - (365 * yoe + yoe \div 4 - yoe \div 100)
        mp  == (5 * doy + 2) \div 153
        d   == doy - (153 * mp + 2) \div 5 + 1
        m   == IF mp < 10 THEN mp + 3 ELSE mp - 9
        y   == yoe + era * 400 + (IF m <= 2 THEN 1 ELSE 0)
    IN  <<y, m, d>>

\* Datelike::month, Datelike::day
month(date) == Civil(date.days)[2]

day(date) == Civil(date.days)[3]

----------------------------------------------------------------------------
(* to_jp_intstring *)

\* u32::to_string: the decimal digits, as ASCII codepoints
RECURSIVE to_string(_)
to_string(num) ==
    IF num < 10 THEN <<48 + num>>
    ELSE Append(to_string(num \div 10), 48 + (num % 10))

\* char::from_u32: None for a surrogate or a value past U+10FFFF
char_from_u32(u) ==
    IF u >= 0 /\ u <= 1114111 /\ ~(u >= 55296 /\ u <= 57343)
    THEN Some(u) ELSE None

\* ShiftChar adding the codepoint of the fullwidth zero, as if c were the
\* digit's value and not its ASCII codepoint
ShiftChar_FromDigitValue(c) == char_from_u32(c + 65296)

\* line 91, before the unwrap
ShiftChar(c) == char_from_u32(c + FullwidthShift)

Returned(value) == [panicked |-> FALSE, value |-> value]

to_jp_intstring(num) ==
    LET chars == to_string(num)
        shifted == [i \in 1..Len(chars) |-> ShiftChar(chars[i])]
    IN  IF \E i \in 1..Len(chars) : shifted[i] = None THEN Panicked
        ELSE Returned([i \in 1..Len(chars) |-> Unwrap(shifted[i])])

----------------------------------------------------------------------------
(* Era::to_jp_nenkou_string *)

\* Era::from_datetime
from_datetime(datetime) == from_unix_epoch(timestamp(datetime))

\* TryInto<u32>: Ok exactly for 0 .. 2^32 - 1
FitsU32(v) == v >= 0 /\ v \div 65536 < 65536

\* era_year with the operands of the subtraction swapped
era_year_Swapped(era, date) ==
    1 + TruncDiv(num_days(Minus(Utc_timestamp(era.started_at), date)), DaysPerYear)

\* era_year counting from zero
era_year_ZeroBased(era, date) ==
    TruncDiv(num_days(Minus(date, Utc_timestamp(era.started_at))), DaysPerYear)

\* line 71: the era-relative year, an i64
era_year(era, date) ==
    1 + TruncDiv(num_days(Minus(date, Utc_timestamp(era.started_at))), DaysPerYear)

\* line 68: "{}{}年{}月{}日"
Format(kanji, y, m, d) ==
    kanji \o y \o <<24180>> \o m \o <<26376>> \o d \o <<26085>>

\* RenderEra formatting a nameless era with an empty name
RenderEra_EmptyName(era, date) ==
    IF ~FitsU32(era_year(era, date)) THEN Panicked
    ELSE LET y == to_jp_intstring(era_year(era, date))
             m == to_jp_intstring(month(date))
             d == to_jp_intstring(day(date))
         IN  IF y.panicked \/ m.panicked \/ d.panicked THEN Panicked
             ELSE Returned(Some(Format(IF era.kanji = None THEN <<>> ELSE Unwrap(era.kanji),
                                       y.value, m.value, d.value)))

\* lines 66-79: the match on era.kanji
RenderEra(era, date) ==
    IF era.kanji = None THEN Returned(None)
    ELSE IF ~FitsU32(era_year(era, date)) THEN Panicked
    ELSE LET y == to_jp_intstring(era_year(era, date))
             m == to_jp_intstring(month(date))
             d == to_jp_intstring(day(date))
         IN  IF y.panicked \/ m.panicked \/ d.panicked THEN Panicked
             ELSE Returned(Some(Format(Unwrap(era.kanji), y.value, m.value, d.value)))

to_jp_nenkou_string(date) ==
    LET found == from_datetime(date)
    IN  IF found.panicked THEN Panicked
        ELSE IF found.era = None THEN Returned(None)
        ELSE RenderEra(SORTED_ERAS[Unwrap(found.era)], date)

----------------------------------------------------------------------------
(* is_jp *)

\* lines 110-118: TRUE when the match returns true for this character
IsJpChar(c) ==
    \/ c >= 12352 /\ c <= 12447
    \/ c >= 12448 /\ c <= 12543
    \/ c >= 12784 /\ c <= 12799

\* IsJpFrom deciding on the character at i alone
IsJpFrom_OneCharOnly(s, i) ==
    IF i > Len(s) THEN FALSE
    ELSE IsJpChar(s[i])

\* lines 109-121: the loop from character i on
RECURSIVE IsJpFrom(_, _)
IsJpFrom(s, i) ==
    IF i > Len(s) THEN FALSE
    ELSE IF IsJpChar(s[i]) THEN TRUE
    ELSE IsJpFrom(s, i + 1)

is_jp(s) == IsJpFrom(s, 1)

----------------------------------------------------------------------------
(* The inputs *)

\* whole days added to an anchor: before it, on it, within the first
\* 365 days, on the 365-day boundary and in the third 365 days
DayOffsets == {-365, 0, 43, 364, 365, 926}

SecOffsets == (-MaxSecOffset..MaxSecOffset) \cup {AnchorSecondOfDay}

\* the epoch and every instant the table names
Anchors ==
    {0} \cup { SORTED_ERAS[i].started_at : i \in 1..Len(SORTED_ERAS) }
        \cup UNION { SORTED_ERAS[i].ended_at : i \in 1..Len(SORTED_ERAS) }

Timestamps ==
    { a + d * SecondsPerDay + s : a \in Anchors, d \in DayOffsets, s \in SecOffsets }

Nums ==
    (0..MaxNum) \cup {999, 1000, 65535, 65536, 999999999, 1000000000, 2147483647}

\* 'A', the codepoints on both sides of every edge of the three blocks of
\* is_jp, and a kanji
Alphabet ==
    {65, 12351, 12352, 12447, 12448, 12543, 12544, 12783, 12784, 12799, 12800, 26085}

Strings == UNION { SeqsOfLen(Alphabet, n) : n \in 0..MaxStrLen }

----------------------------------------------------------------------------
(* The state machine: a caller applies the functions to the static table,  *)
(* one call at a time, in any order.                                       *)

Init ==
    /\ SORTED_ERAS \in ValidTables
    /\ op = "idle"
    /\ arg = <<>>
    /\ ret = <<>>

InitAnyTable ==
    /\ SORTED_ERAS \in AnyTables
    /\ op = "idle"
    /\ arg = <<>>
    /\ ret = <<>>

InitText ==
    /\ SORTED_ERAS = MakeTable(18017 * SecondsPerDay, <<>>, 0)
    /\ op = "idle"
    /\ arg = <<>>
    /\ ret = <<>>

CallFromUnixEpoch ==
    \E unix_epoch \in Timestamps :
        /\ op = "idle"
        /\ op' = "from_unix_epoch"
        /\ arg' = unix_epoch
        /\ ret' = from_unix_epoch(unix_epoch)
        /\ UNCHANGED SORTED_ERAS

CallToJpNenkouString ==
    \E unix_epoch \in Timestamps :
        /\ op = "idle"
        /\ op' = "to_jp_nenkou_string"
        /\ arg' = Utc_timestamp(unix_epoch)
        /\ ret' = to_jp_nenkou_string(Utc_timestamp(unix_epoch))
        /\ UNCHANGED SORTED_ERAS

CallToJpIntstring ==
    \E num \in Nums :
        /\ op = "idle"
        /\ op' = "to_jp_intstring"
        /\ arg' = num
        /\ ret' = to_jp_intstring(num)
        /\ UNCHANGED SORTED_ERAS

CallIsJp ==
    \E s \in Strings :
        /\ op = "idle"
        /\ op' = "is_jp"
        /\ arg' = s
        /\ ret' = is_jp(s)
        /\ UNCHANGED SORTED_ERAS

\* the caller drops the outcome and is free to call again
Return ==
    /\ op # "idle"
    /\ op' = "idle"
    /\ arg' = <<>>
    /\ ret' = <<>>
    /\ UNCHANGED SORTED_ERAS

Next == CallFromUnixEpoch \/ CallToJpNenkouString \/ Return

NextText == CallToJpIntstring \/ CallIsJp \/ Return

\* the era functions over the tables the data model allows
Spec == Init /\ [][Next]_vars

\* the era functions over arbitrary tables
SpecAnyTable == InitAnyTable /\ [][Next]_vars

\* the text functions, which do not read the table
SpecText == InitText /\ [][NextText]_vars

----------------------------------------------------------------------------
(* Properties of Era::from_unix_epoch *)

\* the call that has just returned
Called(f) == op = f

\* t lies in the span of record rec, started_at inclusive and ended_at
\* exclusive, as the data model defines the span
InSpan(rec, t) ==
    rec.started_at <= t /\ (rec.ended_at = None \/ t < Unwrap(rec.ended_at))

\* rec has started_at strictly before t, and no ended_at or ended_at
\* strictly after t
StrictlyInside(rec, t) ==
    rec.started_at < t /\ (rec.ended_at = None \/ t < Unwrap(rec.ended_at))

FirstEra == SORTED_ERAS[1]

LastEra == SORTED_ERAS[Len(SORTED_ERAS)]

\* C1: every timestamp at or after the first era's started_at resolves to
\* an era whose span [started_at, ended_at) holds it, and started_at + 1 of
\* the first era resolves to the first era.
C1_EveryInstantFromFirstStartResolves ==
    (Called("from_unix_epoch") /\ arg >= FirstEra.started_at) =>
        /\ ~ret.panicked
        /\ ret.era # None
        /\ InSpan(SORTED_ERAS[Unwrap(ret.era)], arg)
        /\ (arg = FirstEra.started_at + 1 => ret.era = Some(1))

\* C2: a timestamp strictly before the first era's started_at is no-match,
\* returned before any record of the table is examined.
C2_BeforeFirstEraIsNoMatch ==
    (Called("from_unix_epoch") /\ arg < FirstEra.started_at) =>
        ret = Resolved(None, 0)

\* a pre-epoch timestamp one second before the first era was resolved
C2_Witness ==
    /\ Called("from_unix_epoch")
    /\ arg = FirstEra.started_at - 1
    /\ arg < 0
    /\ ret.era = None

\* C3: a timestamp that no earlier bounded era resolves, and for which the
\* scan reaches the open-ended last record, resolves to that record; so
\* does every timestamp after the last bounded era's ended_at.
C3_OpenEraIsFallback ==
    (Called("from_unix_epoch") /\ ~ret.panicked) =>
        /\ (ret.scanned = Len(SORTED_ERAS) => ret.era = Some(Len(SORTED_ERAS)))
        /\ (/\ Len(SORTED_ERAS) >= 2
            /\ arg > Unwrap(SORTED_ERAS[Len(SORTED_ERAS) - 1].ended_at))
               => ret.era = Some(Len(SORTED_ERAS))

\* the part of C3 the code keeps: every timestamp strictly after the last
\* bounded era's ended_at resolves to the open-ended last record
OpenEraResolvesStrictlyAfterItsStart ==
    (Called("from_unix_epoch") /\ arg > LastEra.started_at) =>
        ret = Resolved(Some(Len(SORTED_ERAS)), Len(SORTED_ERAS))

\* the record, other than the first, whose started_at is exactly t
StartsAt(i, t) == i \in 2..Len(SORTED_ERAS) /\ SORTED_ERAS[i].started_at = t

C10_ReturnedEraIsFirstStrictMatch ==
    (Called("from_unix_epoch") /\ ~ret.panicked /\ ret.era # None) =>
        LET i == Unwrap(ret.era)
        IN  /\ i \in 1..Len(SORTED_ERAS)
            /\ StrictlyInside(SORTED_ERAS[i], arg)
            /\ \A j \in 1..(i - 1) : ~StrictlyInside(SORTED_ERAS[j], arg)
            /\ ~(SORTED_ERAS[i].started_at >= arg)
            /\ (SortedAscending(SORTED_ERAS) /\ Contiguous(SORTED_ERAS)) =>
                   \A t2 \in Timestamps :
                       LET later == from_unix_epoch(t2)
                       IN  (arg <= t2 /\ later.era # None) => i <= Unwrap(later.era)

\* the second record of a table that is not sorted was returned
C10_Witness ==
    /\ Called("from_unix_epoch")
    /\ ~ret.panicked
    /\ ret.era = Some(2)
    /\ ~SortedAscending(SORTED_ERAS)

----------------------------------------------------------------------------
(* Properties of Era::to_jp_nenkou_string *)

\* the era that from_unix_epoch resolves the date of the call to
FoundEra == from_unix_epoch(timestamp(arg)).era

\* whole days from the start of record rec to the date
WholeDays(rec, date) == (timestamp(date) - rec.started_at) \div SecondsPerDay

\* s begins with prefix
BeginsWith(s, prefix) ==
    Len(prefix) <= Len(s) /\ SubSeq(s, 1, Len(prefix)) = prefix

\* C4: neither from_unix_epoch nor to_jp_nenkou_string panics: each call
\* returns a result or no-match.
C4_NeverPanics ==
    /\ Called("from_unix_epoch") =>
           /\ ~ret.panicked
           /\ ret.era \in {None} \cup { Some(i) : i \in 1..Len(SORTED_ERAS) }
    /\ Called("to_jp_nenkou_string") =>
           /\ ~ret.panicked
           /\ ret.value = None \/ \E str \in ret.value : Len(str) > 0

\* a date in the third 365 days of its era was rendered: both unwraps ran
C4_Witness ==
    /\ Called("to_jp_nenkou_string")
    /\ ~ret.panicked
    /\ ret.value # None
    /\ WholeDays(SORTED_ERAS[Unwrap(FoundEra)], arg) = 926

\* C5: to_jp_nenkou_string is no-match exactly when no era resolves or the
\* resolved era has no kanji; otherwise it returns a string that begins
\* with the kanji of the resolved era.
C5_NoMatchExactlyWithoutEraOrKanji ==
    Called("to_jp_nenkou_string") =>
        /\ ~ret.panicked
        /\ (ret.value = None) <=>
               (FoundEra = None \/ SORTED_ERAS[Unwrap(FoundEra)].kanji = None)
        /\ ret.value # None =>
               BeginsWith(Unwrap(ret.value), Unwrap(SORTED_ERAS[Unwrap(FoundEra)].kanji))

\* a date resolved to an era without kanji, and the outcome was no-match
C5_Witness ==
    /\ Called("to_jp_nenkou_string")
    /\ FoundEra # None
    /\ SORTED_ERAS[Unwrap(FoundEra)].kanji = None
    /\ ret.value = None

\* C6: the rendered year is 1 + floor(d / 365) for d the whole days from
\* the era's started_at to the date; it is at least 1 and does not decrease
\* as the date advances within the era; the string is the era name, the
\* year, the month and the day, in this order.
C6_YearIsOnePlusDaysOver365 ==
    (Called("to_jp_nenkou_string") /\ ~ret.panicked /\ ret.value # None) =>
        LET rec == SORTED_ERAS[Unwrap(FoundEra)]
            d == WholeDays(rec, arg)
            y == 1 + (d \div 365)
        IN  /\ y >= 1
            /\ d = 926 => y = 3
            /\ d = 43 => y = 1
            /\ Unwrap(ret.value) =
                   Unwrap(rec.kanji) \o to_jp_intstring(y).value \o <<24180>>
                       \o to_jp_intstring(month(arg)).value \o <<26376>>
                       \o to_jp_intstring(day(arg)).value \o <<26085>>
            /\ \A t2 \in Timestamps :
                   (timestamp(arg) <= t2 /\ from_unix_epoch(t2).era = FoundEra) =>
                       era_year(rec, arg) <= era_year(rec, Utc_timestamp(t2))

\* 2021-11-12T22:10:57Z, 926 days into an era that began on 2019-05-01,
\* was rendered as year 3, month 11, day 12 of that era
C6_Witness ==
    /\ Called("to_jp_nenkou_string")
    /\ SORTED_ERAS[1].started_at = 18017 * SecondsPerDay
    /\ timestamp(arg) = 1636755057
    /\ ret.value =
           Some(<<20196, 21644, 65299, 24180, 65297, 65297, 26376, 65297, 65298, 26085>>)

----------------------------------------------------------------------------
(* Properties of to_jp_intstring *)

RECURSIVE Pow10(_)
Pow10(k) == IF k = 0 THEN 1 ELSE 10 * Pow10(k - 1)

\* how many decimal digits n has
RECURSIVE DigitCount(_)
DigitCount(n) == IF n < 10 THEN 1 ELSE 1 + DigitCount(n \div 10)

\* the i-th decimal digit of n from the left, as its ASCII codepoint
DecimalChar(n, i) == 48 + ((n \div Pow10(DigitCount(n) - i)) % 10)

\* C7: to_jp_intstring(n) has as many characters as the decimal string of
\* n, and its i-th character is the i-th decimal digit moved up by 65248,
\* a fullwidth digit.
C7_FullwidthDigitForDigit ==
    Called("to_jp_intstring") =>
        /\ ~ret.panicked
        /\ Len(ret.value) = DigitCount(arg)
        /\ \A i \in 1..Len(ret.value) :
               /\ ret.value[i] = DecimalChar(arg, i) + 65248
               /\ ret.value[i] \in 65296..65305
               /\ ret.value[i] - 65248 \in 48..57

\* the largest number of the model, ten digits, was converted
C7_Witness ==
    /\ Called("to_jp_intstring")
    /\ arg = 2147483647
    /\ ret.value = <<65298, 65297, 65300, 65303, 65300, 65304, 65299, 65302, 65300, 65303>>

----------------------------------------------------------------------------
(* Properties of is_jp *)

\* Hiragana U+3040..U+309F, Katakana U+30A0..U+30FF, Katakana phonetic
\* extensions U+31F0..U+31FF
KanaCodepoints == (12352..12447) \cup (12448..12543) \cup (12784..12799)

\* C8: is_jp(s) is true exactly when a character of s is Hiragana, Katakana
\* or a Katakana phonetic extension: false for the empty string and for
\* ASCII, true for one such character at any position.
C8_TrueExactlyWithKana ==
    Called("is_jp") =>
        /\ ret <=> (\E i \in 1..Len(arg) : arg[i] \in KanaCodepoints)
        /\ arg = <<>> => ret = FALSE
        /\ (\A i \in 1..Len(arg) : arg[i] < 128) => ret = FALSE

\* a string whose only kana is its last character was found Japanese
C8_Witness ==
    /\ Called("is_jp")
    /\ Len(arg) = MaxStrLen
    /\ \A i \in 1..(Len(arg) - 1) : arg[i] = 65
    /\ arg[Len(arg)] = 12799
    /\ ret = TRUE

====
